---------------------------- MODULE Spec2Model ----------------------------
(***************************************************************************)
(* practicelog: a Flask application over an SQLAlchemy database            *)
(* (src/app.py, src/models.py).  The database tables are the state; each   *)
(* request handler is one action (the whole handler, its commit or its     *)
(* rollback included); the analytics helpers are operators over the rows   *)
(* a handler reads.                                                        *)
(*                                                                         *)
(* Time is counted in hours since an arbitrary epoch; a datetime is an     *)
(* integer number of hours and its calendar date is the number of whole    *)
(* days in it.  A name is a sequence of characters.  Free text that no     *)
(* handler reads back (Session.description, SessionTopic.note) is left     *)
(* out of the rows.                                                        *)
(***************************************************************************)
EXTENDS Integers, Sequences, FiniteSets, TLC

VARIABLES
    now,             \* the wall clock, datetime.now()
    instruments,     \* table instruments: row i is the name of Instrument id i
    sessions,        \* table sessions: row i is Session id i
    topics,          \* table topics: row i is the name of Topic id i
    tags,            \* table tags: row i is the name of Tag id i
    session_topics,  \* table session_topics: rows [session_id, topic_id]
    topic_tags,      \* table topic_tags: rows [topic_id, tag_id]
    response         \* what the last request handler returned

vars == <<now, instruments, sessions, topics, tags, session_topics,
          topic_tags, response>>

---------------------------------------------------------------------------
(* Bounds of the model.                                                    *)

\* Sessions stored at most, in the specification of the whole application.
MaxSessions == 2
\* Sessions stored at most, in the specification of the streak.
MaxStreakSessions == 3
\* Sessions stored at most, in the specification of the windowed selection.
MaxWindowSessions == 3
\* SessionTopic rows of one session at most.
MaxTopicsPerSession == 2
\* Rows of the topics table, and of the tags table, at most.
MaxTopicRows == 2
MaxTagRows == 2
\* Rows of the instruments table at most (three are seeded).
MaxInstrumentRows == 4
\* Sessions stored at most, in the specification of the aggregators.
MaxAggSessions == 2
\* Times the clock advances at most.
MaxTicks == 1

(* Program constants.                                                      *)
HoursPerDay == 24
WeekDays == 7
MonthDays == 30

\* The clock when the application starts: day 10, 09:00.
StartHour == 249

---------------------------------------------------------------------------
(* Small helpers over sequences.                                           *)

\* The index of the first row equal to x, 0 when there is none
\* (Query.filter_by(...).one_or_none() on a unique column).
IndexOf(s, x) ==
    IF \E i \in 1..Len(s) : s[i] = x
    THEN CHOOSE i \in 1..Len(s) : s[i] = x /\ \A j \in 1..(i - 1) : s[j] # x
    ELSE 0

\* All sequences over S of length lo..hi.
SeqsOf(S, lo, hi) == UNION {[1..n -> S] : n \in lo..hi}

RECURSIVE SumSeq(_)
SumSeq(s) == IF s = <<>> THEN 0 ELSE Head(s) + SumSeq(Tail(s))

RECURSIVE SumOver(_, _)
\* The sum of f[x] over the elements x of the finite set S.
SumOver(f, S) ==
    IF S = {} THEN 0
    ELSE LET x == CHOOSE y \in S : TRUE IN f[x] + SumOver(f, S \ {x})

\* started_at.date(): the calendar day of a datetime.
DateOf(t) == t \div HoursPerDay

---------------------------------------------------------------------------
(* Optional values: None is the empty sequence, a value x is <<x>>.        *)

NoValue == <<>>
Some(x) == <<x>>

(* Names.  str.strip() removes the leading and the trailing whitespace.    *)

Space == " "

RECURSIVE lstrip(_)
lstrip(s) == IF s # <<>> /\ Head(s) = Space THEN lstrip(Tail(s)) ELSE s

RECURSIVE rstrip(_)
rstrip(s) ==
    IF s # <<>> /\ s[Len(s)] = Space THEN rstrip(SubSeq(s, 1, Len(s) - 1)) ELSE s

strip(s) == rstrip(lstrip(s))

---------------------------------------------------------------------------
(* Queries.                                                                *)

SessionIds == 1..Len(sessions)

RECURSIVE DescOrders(_)
\* Every listing of the session ids S by started_at descending: the order
\* of rows with equal started_at is the database's choice.
DescOrders(S) ==
    IF S = {} THEN {<<>>}
    ELSE UNION {{<<m>> \o r : r \in DescOrders(S \ {m})} :
                m \in {x \in S : \A y \in S :
                         sessions[y].started_at <= sessions[x].started_at}}

\* A variant that leaves out the sessions started exactly at since.
sessions_since_strict(since) ==
    DescOrders({i \in SessionIds : sessions[i].started_at > since})

\* Session.query.filter(Session.started_at >= since)
\*              .order_by(Session.started_at.desc()).all()
sessions_since(since) ==
    DescOrders({i \in SessionIds : sessions[i].started_at >= since})

\* Session.query.order_by(Session.started_at.desc()).all()
sessions_desc == DescOrders(SessionIds)

\* session.topics: the SessionTopic rows of a session, in insertion order.
session_topics_of(sid) ==
    SelectSeq(session_topics, LAMBDA r : r.session_id = sid)

\* topic.tags: the TopicTag rows of a topic, in insertion order.
topic_tags_of(tid) == SelectSeq(topic_tags, LAMBDA r : r.topic_id = tid)

---------------------------------------------------------------------------
(* streak_info, src/app.py:128-173.                                        *)

\* A variant that starts the streak at the most recent day however old it is.
streak_first_never_breaks(day, today) == FALSE

\* The first row: "if (today - day).days > 0: ... if today_offset > 1: break".
streak_first_breaks(day, today) ==
    /\ today - day > 0
    /\ LET today_offset == today - day IN
         /\ today_offset > 0
         /\ today_offset > 1

\* A variant that lets a gap of two days extend the streak.
streak_step_gap_two(st, day) ==
    LET diff == st.previous_day[1] - day IN
      IF diff = 0 THEN [brk |-> FALSE, st |-> st]
      ELSE IF diff <= 2
        THEN [brk |-> FALSE,
              st  |-> [st EXCEPT !.streak = @ + 1,
                                 !.streak_start = Some(day),
                                 !.previous_day = Some(day)]]
        ELSE [brk |-> TRUE, st |-> st]

\* A variant that counts a second session of the same day as a new day.
streak_step_counts_same_day(st, day) ==
    LET diff == st.previous_day[1] - day IN
      IF diff <= 1
        THEN [brk |-> FALSE,
              st  |-> [st EXCEPT !.streak = @ + 1,
                                 !.streak_start = Some(day),
                                 !.previous_day = Some(day)]]
        ELSE [brk |-> TRUE, st |-> st]

\* A variant that extends the streak without moving streak_start.
streak_step_keeps_start(st, day) ==
    LET diff == st.previous_day[1] - day IN
      IF diff = 0 THEN [brk |-> FALSE, st |-> st]
      ELSE IF diff = 1
        THEN [brk |-> FALSE,
              st  |-> [st EXCEPT !.streak = @ + 1,
                                 !.previous_day = Some(day)]]
        ELSE [brk |-> TRUE, st |-> st]

\* A later row: the gap to the previous day, 0 skips, 1 extends, more breaks.
streak_step(st, day) ==
    LET diff == st.previous_day[1] - day IN
      IF diff = 0 THEN [brk |-> FALSE, st |-> st]
      ELSE IF diff = 1
        THEN [brk |-> FALSE,
              st  |-> [st EXCEPT !.streak = @ + 1,
                                 !.streak_start = Some(day),
                                 !.previous_day = Some(day)]]
        ELSE [brk |-> TRUE, st |-> st]

RECURSIVE streak_loop(_, _, _)
\* The for loop over the rows still to visit, from the loop state st.
streak_loop(rows, today, st) ==
    IF rows = <<>> THEN st
    ELSE LET day == DateOf(Head(rows)) IN
      IF st.previous_day = NoValue
      THEN IF streak_first_breaks(day, today) THEN st
           ELSE streak_loop(Tail(rows), today,
                            [streak |-> 1, streak_start |-> Some(day),
                             streak_end |-> Some(day),
                             previous_day |-> Some(day)])
      ELSE LET r == streak_step(st, day) IN
             IF r.brk THEN r.st ELSE streak_loop(Tail(rows), today, r.st)

\* A variant without the early return, whose dates default to today.
streak_info_dates_default(rows, today) ==
    LET st == streak_loop(rows, today,
                          [streak |-> 0, streak_start |-> Some(today),
                           streak_end |-> Some(today),
                           previous_day |-> NoValue])
    IN <<st.streak, st.streak_start, st.streak_end>>

\* rows: the started_at of every session, most recent first.
streak_info(rows, today) ==
    IF rows = <<>> THEN <<0, NoValue, NoValue>>
    ELSE LET st == streak_loop(rows, today,
                               [streak |-> 0, streak_start |-> NoValue,
                                streak_end |-> NoValue,
                                previous_day |-> NoValue])
         IN <<st.streak, st.streak_start, st.streak_end>>

---------------------------------------------------------------------------
(* The aggregators, src/app.py:176-205.  Python divides in floating point; *)
(* here a total is an exact number of ShareUnit-ths of a minute, and       *)
(* ShareUnit is a multiple of every topic count a session can have.        *)

RECURSIVE Factorial(_)
Factorial(n) == IF n <= 1 THEN 1 ELSE n * Factorial(n - 1)

ShareUnit == Factorial(MaxTopicsPerSession)

EmptyDict == [k \in {} |-> 0]

\* totals[key] += share, on a defaultdict(float).
dict_add(totals, key, share) ==
    [k \in DOMAIN totals \cup {key} |->
        IF k = key
        THEN (IF key \in DOMAIN totals THEN totals[key] ELSE 0) + share
        ELSE totals[k]]

\* A variant that gives every topic the whole duration.
session_share_undivided(sid, topic_count) ==
    sessions[sid].duration_min * ShareUnit

\* A variant that counts a negative duration as zero.
session_share_clamped(sid, topic_count) ==
    IF sessions[sid].duration_min < 0 THEN 0
    ELSE (sessions[sid].duration_min * ShareUnit) \div topic_count

\* share = session.duration_min / topic_count
session_share(sid, topic_count) ==
    (sessions[sid].duration_min * ShareUnit) \div topic_count

RECURSIVE topic_shares(_, _, _)
\* for session_topic in session.topics: totals[topic.name] += share
topic_shares(totals, sts, share) ==
    IF sts = <<>> THEN totals
    ELSE topic_shares(dict_add(totals, topics[Head(sts).topic_id], share),
                      Tail(sts), share)

RECURSIVE topic_totals_loop_unassigned(_, _)
\* A variant that books a session without topics under the empty name.
topic_totals_loop_unassigned(totals, rows) ==
    IF rows = <<>> THEN totals
    ELSE LET sts == session_topics_of(Head(rows))
             topic_count == Len(sts)
         IN IF topic_count = 0
            THEN topic_totals_loop_unassigned(
                     dict_add(totals, <<>>,
                              sessions[Head(rows)].duration_min * ShareUnit),
                     Tail(rows))
            ELSE topic_totals_loop_unassigned(
                     topic_shares(totals, sts,
                                  session_share(Head(rows), topic_count)),
                     Tail(rows))

RECURSIVE topic_totals_loop(_, _)
topic_totals_loop(totals, rows) ==
    IF rows = <<>> THEN totals
    ELSE LET sts == session_topics_of(Head(rows))
             topic_count == Len(sts)
         IN IF topic_count = 0
            THEN topic_totals_loop(totals, Tail(rows))
            ELSE topic_totals_loop(
                     topic_shares(totals, sts,
                                  session_share(Head(rows), topic_count)),
                     Tail(rows))

\* rows: the sessions to aggregate, as a sequence of session ids.
aggregate_time_by_topic(rows) == topic_totals_loop(EmptyDict, rows)

RECURSIVE tag_shares_of_topic(_, _, _)
\* for topic_tag in topic.tags: totals[topic_tag.tag.name] += share
tag_shares_of_topic(totals, tts, share) ==
    IF tts = <<>> THEN totals
    ELSE tag_shares_of_topic(dict_add(totals, tags[Head(tts).tag_id], share),
                             Tail(tts), share)

RECURSIVE tag_shares_split(_, _, _)
\* A variant that splits a topic's share evenly over the topic's tags.
tag_shares_split(totals, sts, share) ==
    IF sts = <<>> THEN totals
    ELSE LET tts == topic_tags_of(Head(sts).topic_id) IN
           IF tts = <<>> THEN tag_shares_split(totals, Tail(sts), share)
           ELSE tag_shares_split(
                    tag_shares_of_topic(totals, tts, share \div Len(tts)),
                    Tail(sts), share)

RECURSIVE tag_shares(_, _, _)
\* for session_topic in session.topics: if not topic.tags: continue; ...
tag_shares(totals, sts, share) ==
    IF sts = <<>> THEN totals
    ELSE LET tts == topic_tags_of(Head(sts).topic_id) IN
           IF tts = <<>> THEN tag_shares(totals, Tail(sts), share)
           ELSE tag_shares(tag_shares_of_topic(totals, tts, share),
                           Tail(sts), share)

RECURSIVE tag_totals_loop(_, _)
tag_totals_loop(totals, rows) ==
    IF rows = <<>> THEN totals
    ELSE LET sts == session_topics_of(Head(rows))
             topic_count == Len(sts)
         IN IF topic_count = 0
            THEN tag_totals_loop(totals, Tail(rows))
            ELSE tag_totals_loop(
                     tag_shares(totals, sts,
                                session_share(Head(rows), topic_count)),
                     Tail(rows))

aggregate_time_by_tag(rows) == tag_totals_loop(EmptyDict, rows)

---------------------------------------------------------------------------
(* The database session of one request: the tables as the request sees     *)
(* them, its own pending rows included (queries autoflush).  Nothing       *)
(* reaches the stored tables before db.session.commit().                   *)

stored ==
    [instruments |-> instruments, sessions |-> sessions, topics |-> topics,
     tags |-> tags, session_topics |-> session_topics,
     topic_tags |-> topic_tags]

NoDuplicates(s) == \A i, j \in 1..Len(s) : s[i] = s[j] => i = j

\* A variant without uq_session_topic.
integrity_ok_without_uq_session_topic(d) ==
    /\ NoDuplicates(d.instruments)
    /\ NoDuplicates(d.topics)
    /\ NoDuplicates(d.tags)
    /\ NoDuplicates(d.topic_tags)

\* The unique constraints of src/models.py, checked when rows are flushed:
\* a violation raises IntegrityError and the request stores nothing.
integrity_ok(d) ==
    /\ NoDuplicates(d.instruments)
    /\ NoDuplicates(d.topics)
    /\ NoDuplicates(d.tags)
    /\ NoDuplicates(d.session_topics)
    /\ NoDuplicates(d.topic_tags)

\* A variant that never looks the name up.
get_or_create_topic_always_creates(d, name) ==
    [db |-> [d EXCEPT !.topics = Append(@, name)], id |-> Len(d.topics) + 1]

\* topic = Topic.query.filter_by(name=name).one_or_none(); created and
\* flushed when there is none.
get_or_create_topic(d, name) ==
    LET i == IndexOf(d.topics, name) IN
      IF i # 0 THEN [db |-> d, id |-> i]
      ELSE [db |-> [d EXCEPT !.topics = Append(@, name)],
            id |-> Len(d.topics) + 1]

get_or_create_tag(d, name) ==
    LET i == IndexOf(d.tags, name) IN
      IF i # 0 THEN [db |-> d, id |-> i]
      ELSE [db |-> [d EXCEPT !.tags = Append(@, name)],
            id |-> Len(d.tags) + 1]

\* existing = TopicTag.query.filter_by(topic_id, tag_id).one_or_none()
\* if existing is None: db.session.add(TopicTag(topic=topic, tag=tag))
link_topic_tag(d, topic_id, tag_id) ==
    LET row == [topic_id |-> topic_id, tag_id |-> tag_id] IN
      IF IndexOf(d.topic_tags, row) # 0 THEN d
      ELSE [d EXCEPT !.topic_tags = Append(@, row)]

add_session_topic(d, session_id, topic_id) ==
    [d EXCEPT !.session_topics =
                  Append(@, [session_id |-> session_id, topic_id |-> topic_id])]

RECURSIVE get_or_create_tags(_, _)
\* [get_or_create_tag(tag_name) for tag_name in names]: the database and
\* the ids of the tag entities, in order.
get_or_create_tags(d, names) ==
    IF names = <<>> THEN [db |-> d, ids |-> <<>>]
    ELSE LET r == get_or_create_tag(d, Head(names))
             rest == get_or_create_tags(r.db, Tail(names))
         IN [db |-> rest.db, ids |-> <<r.id>> \o rest.ids]

RECURSIVE link_topic_tags(_, _, _)
\* for tag in tag_ids: link topic and tag unless linked
link_topic_tags(d, topic_id, tag_ids) ==
    IF tag_ids = <<>> THEN d
    ELSE link_topic_tags(link_topic_tag(d, topic_id, Head(tag_ids)),
                         topic_id, Tail(tag_ids))

RECURSIVE link_all_first_topic(_, _, _)
\* A variant that links the tags to the first topic only.
link_all_first_topic(d, topic_ids, tag_ids) ==
    IF topic_ids = <<>> THEN d
    ELSE link_topic_tags(d, Head(topic_ids), tag_ids)

RECURSIVE link_all(_, _, _)
\* for topic in topic_ids: for tag in tag_ids: link unless linked
link_all(d, topic_ids, tag_ids) ==
    IF topic_ids = <<>> THEN d
    ELSE link_all(link_topic_tags(d, Head(topic_ids), tag_ids),
                  Tail(topic_ids), tag_ids)

RECURSIVE tag_topic(_, _, _)
\* for tag_name in names: tag = get_or_create_tag(tag_name); link unless linked
tag_topic(d, topic_id, names) ==
    IF names = <<>> THEN d
    ELSE LET r == get_or_create_tag(d, Head(names)) IN
           tag_topic(link_topic_tag(r.db, topic_id, r.id), topic_id, Tail(names))

\* [t.strip() for t in tags_raw.split(",") if t.strip()], on the pieces.
clean_tags(pieces) ==
    LET stripped == [i \in 1..Len(pieces) |-> strip(pieces[i])]
    IN SelectSeq(stripped, LAMBDA t : t # <<>>)

---------------------------------------------------------------------------
(* create_session, src/app.py:360-436.                                     *)
(* form: started_at (None when it does not parse), duration_min,           *)
(* instrument_id, topics (the topic_name_* fields), tags (the pieces of    *)
(* the tags field between commas).                                         *)

\* TopicInput.name_not_empty over the submitted names: the stripped names,
\* or None when one is empty.
topic_inputs(names) ==
    IF \E i \in 1..Len(names) : strip(names[i]) = <<>> THEN NoValue
    ELSE Some([i \in 1..Len(names) |-> strip(names[i])])

\* SessionInput(...) raises: unparsable date, duration <= 0, no topic.
session_input_ok(form, form_topics) ==
    /\ form.started_at # NoValue
    /\ ~(form.duration_min <= 0)
    /\ form_topics # <<>>

\* The duplicate test of the topic loop: topic.id in seen_topics.
topic_seen(topic_id, seen_topics) == topic_id \in seen_topics

RECURSIVE create_session_topics(_, _, _, _)
\* The loop over session_input.topics: ok is FALSE when a topic comes twice
\* (the handler rolls back); topic_entities are the topics, in order.
create_session_topics(d, session_id, names, seen_topics) ==
    IF names = <<>> THEN [ok |-> TRUE, db |-> d, topic_entities |-> <<>>]
    ELSE LET r == get_or_create_topic(d, Head(names)) IN
      IF topic_seen(r.id, seen_topics)
      THEN [ok |-> FALSE, db |-> d, topic_entities |-> <<>>]
      ELSE LET rest == create_session_topics(
                           add_session_topic(r.db, session_id, r.id),
                           session_id, Tail(names), seen_topics \cup {r.id})
           IN [ok |-> rest.ok, db |-> rest.db,
               topic_entities |-> <<r.id>> \o rest.topic_entities]

\* A variant whose duplicate-topic branch returns without db.session.rollback().
create_session_run_without_rollback(d, form) ==
    LET form_topics == topic_inputs(form.topics) IN
    IF form_topics = NoValue THEN [flash |-> "error_topic", db |-> d]
    ELSE IF ~session_input_ok(form, form_topics[1])
    THEN [flash |-> "error_input", db |-> d]
    ELSE IF form.instrument_id \notin 1..Len(d.instruments)
    THEN [flash |-> "error_instrument", db |-> d]
    ELSE
      LET session == [started_at |-> form.started_at[1],
                      duration_min |-> form.duration_min,
                      instrument_id |-> form.instrument_id]
          d1 == [d EXCEPT !.sessions = Append(@, session)]
          st == create_session_topics(d1, Len(d1.sessions), form_topics[1], {})
      IN IF ~st.ok THEN [flash |-> "error_duplicate", db |-> st.db]
         ELSE LET tg == get_or_create_tags(st.db, clean_tags(form.tags))
                  d2 == link_all(tg.db, st.topic_entities, tg.ids)
              IN IF integrity_ok(d2) THEN [flash |-> "success", db |-> d2]
                 ELSE [flash |-> "IntegrityError", db |-> d]

\* The handler on a request's database d: the flash message, and the
\* database to commit (d itself when the request stores nothing).
create_session_run(d, form) ==
    LET form_topics == topic_inputs(form.topics) IN
    IF form_topics = NoValue THEN [flash |-> "error_topic", db |-> d]
    ELSE IF ~session_input_ok(form, form_topics[1])
    THEN [flash |-> "error_input", db |-> d]
    ELSE IF form.instrument_id \notin 1..Len(d.instruments)
    THEN [flash |-> "error_instrument", db |-> d]
    ELSE
      LET session == [started_at |-> form.started_at[1],
                      duration_min |-> form.duration_min,
                      instrument_id |-> form.instrument_id]
          d1 == [d EXCEPT !.sessions = Append(@, session)]
          st == create_session_topics(d1, Len(d1.sessions), form_topics[1], {})
      IN IF ~st.ok THEN [flash |-> "error_duplicate", db |-> d]
         ELSE LET tg == get_or_create_tags(st.db, clean_tags(form.tags))
                  d2 == link_all(tg.db, st.topic_entities, tg.ids)
              IN IF integrity_ok(d2) THEN [flash |-> "success", db |-> d2]
                 ELSE [flash |-> "IntegrityError", db |-> d]

---------------------------------------------------------------------------
(* add_topic_to_session, src/app.py:454-481.                               *)
(* form: name, tags (the pieces of the tags field between commas).         *)

\* any(st.topic_id == topic.id for st in session.topics)
topic_in_session(d, session_id, topic_id) ==
    \E i \in 1..Len(d.session_topics) :
        /\ d.session_topics[i].session_id = session_id
        /\ d.session_topics[i].topic_id = topic_id

add_topic_run(d, session_id, form) ==
    IF session_id \notin 1..Len(d.sessions) THEN [status |-> 404, db |-> d]
    ELSE LET name == strip(form.name) IN
      IF name = <<>> THEN [status |-> 400, db |-> d]
      ELSE LET r == get_or_create_topic(d, name) IN
        IF topic_in_session(r.db, session_id, r.id)
        THEN [status |-> 400, db |-> d]
        ELSE LET d1 == add_session_topic(r.db, session_id, r.id)
                 d2 == tag_topic(d1, r.id, clean_tags(form.tags))
             IN IF integrity_ok(d2) THEN [status |-> 200, db |-> d2]
                ELSE [status |-> 500, db |-> d]

---------------------------------------------------------------------------
(* import_json, src/app.py:601-682.                                        *)
(* data: tags (rows [id, name]), topics (rows [id, name, tags: tag ids]),  *)
(* instruments (names), sessions (rows [started_at (None when it does not  *)
(* parse), duration_min, instrument, topics (rows [name, tags: names])]).  *)

dict_put(f, k, v) == [x \in DOMAIN f \cup {k} |-> IF x = k THEN v ELSE f[x]]

RECURSIVE import_tags(_, _, _)
\* for tag_data in data["tags"]: tag_lookup[id] = get_or_create_tag(name)
import_tags(d, tag_lookup, tag_datas) ==
    IF tag_datas = <<>> THEN [db |-> d, tag_lookup |-> tag_lookup]
    ELSE LET r == get_or_create_tag(d, Head(tag_datas).name) IN
           import_tags(r.db, dict_put(tag_lookup, Head(tag_datas).id, r.id),
                       Tail(tag_datas))

RECURSIVE import_topic_tags(_, _, _, _)
\* for tag_id in topic_data["tags"]: skip the unknown ids, link the others
import_topic_tags(d, tag_lookup, topic_id, tag_ids) ==
    IF tag_ids = <<>> THEN d
    ELSE IF Head(tag_ids) \notin DOMAIN tag_lookup
    THEN import_topic_tags(d, tag_lookup, topic_id, Tail(tag_ids))
    ELSE import_topic_tags(
             link_topic_tag(d, topic_id, tag_lookup[Head(tag_ids)]),
             tag_lookup, topic_id, Tail(tag_ids))

RECURSIVE import_topics(_, _, _)
\* for topic_data in data["topics"] (topic_lookup is written, never read)
import_topics(d, tag_lookup, topic_datas) ==
    IF topic_datas = <<>> THEN d
    ELSE LET r == get_or_create_topic(d, Head(topic_datas).name) IN
           import_topics(
               import_topic_tags(r.db, tag_lookup, r.id, Head(topic_datas).tags),
               tag_lookup, Tail(topic_datas))

\* instrument_lookup.get(name), creating the instrument when it is missing:
\* the lookup holds every stored instrument by name.
get_or_create_instrument(d, name) ==
    LET i == IndexOf(d.instruments, name) IN
      IF i # 0 THEN [db |-> d, id |-> i]
      ELSE [db |-> [d EXCEPT !.instruments = Append(@, name)],
            id |-> Len(d.instruments) + 1]

RECURSIVE import_instruments(_, _)
\* for instrument_data in data["instruments"]: if name and name not in lookup
import_instruments(d, names) ==
    IF names = <<>> THEN d
    ELSE IF Head(names) = ""
    THEN import_instruments(d, Tail(names))
    ELSE import_instruments(get_or_create_instrument(d, Head(names)).db,
                            Tail(names))

RECURSIVE import_session_topics(_, _, _)
\* for topic_info in session_data["topics"]: skip the empty names; no test
\* that the session has the topic already.
import_session_topics(d, session_id, topic_infos) ==
    IF topic_infos = <<>> THEN d
    ELSE LET topic_name == Head(topic_infos).name IN
      IF topic_name = <<>>
      THEN import_session_topics(d, session_id, Tail(topic_infos))
      ELSE LET r  == get_or_create_topic(d, topic_name)
               d1 == add_session_topic(r.db, session_id, r.id)
               d2 == tag_topic(d1, r.id, Head(topic_infos).tags)
           IN import_session_topics(d2, session_id, Tail(topic_infos))

RECURSIVE import_sessions(_, _)
\* for session_data in data["sessions"]: ok is FALSE when a started_at does
\* not parse (datetime.fromisoformat raises).
import_sessions(d, session_datas) ==
    IF session_datas = <<>> THEN [ok |-> TRUE, db |-> d]
    ELSE LET sd == Head(session_datas) IN
      IF sd.started_at = NoValue THEN [ok |-> FALSE, db |-> d]
      ELSE LET inst == get_or_create_instrument(d, sd.instrument)
               session == [started_at |-> sd.started_at[1],
                           duration_min |-> sd.duration_min,
                           instrument_id |-> inst.id]
               d1 == [inst.db EXCEPT !.sessions = Append(@, session)]
               d2 == import_session_topics(d1, Len(d1.sessions), sd.topics)
           IN import_sessions(d2, Tail(session_datas))

\* filename: "" when no file was sent.  The suffix test is on the name.
is_json_file(filename) == filename \in {"data.json", "DATA.JSON"}

import_json_run(d, filename, data) ==
    IF filename = "" THEN [flash |-> "error_no_file", db |-> d]
    ELSE IF ~is_json_file(filename) THEN [flash |-> "error_not_json", db |-> d]
    ELSE
      LET tg == import_tags(d, EmptyDict, data.tags)
          d1 == import_topics(tg.db, tg.tag_lookup, data.topics)
          d2 == import_instruments(d1, data.instruments)
          ss == import_sessions(d2, data.sessions)
      IN IF ~ss.ok THEN [flash |-> "ValueError", db |-> d]
         ELSE IF ~integrity_ok(ss.db) THEN [flash |-> "IntegrityError", db |-> d]
         ELSE [flash |-> "success", db |-> ss.db]

---------------------------------------------------------------------------
(* The state machine.                                                      *)

\* init_db: the tables are created empty and the instruments are seeded.
Init ==
    /\ now = StartHour
    /\ instruments = <<"Guitarra", "Piano", "Violin">>
    /\ sessions = <<>>
    /\ topics = <<>>
    /\ tags = <<>>
    /\ session_topics = <<>>
    /\ topic_tags = <<>>
    /\ response = [op |-> "init"]

\* db.session.commit() of the request's database d (d = stored: nothing new).
commit(d) ==
    /\ instruments' = d.instruments
    /\ sessions' = d.sessions
    /\ topics' = d.topics
    /\ tags' = d.tags
    /\ session_topics' = d.session_topics
    /\ topic_tags' = d.topic_tags

\* The bounds of the model on the tables a request leaves behind.
Fits(d, max_sessions) ==
    /\ Len(d.sessions) <= max_sessions
    /\ Len(d.topics) <= MaxTopicRows
    /\ Len(d.tags) <= MaxTagRows
    /\ Len(d.instruments) <= MaxInstrumentRows
    /\ \A i \in 1..Len(d.sessions) :
         Len(SelectSeq(d.session_topics, LAMBDA r : r.session_id = i))
             <= MaxTopicsPerSession

\* POST /sessions
create_session(form, max_sessions) ==
    \E r \in {create_session_run(stored, form)} :
      /\ Fits(r.db, max_sessions)
      /\ commit(r.db)
      /\ response' = [op |-> "create_session", flash |-> r.flash]
      /\ UNCHANGED now

\* POST /sessions/<session_id>/topics
add_topic_to_session(session_id, form, max_sessions) ==
    \E r \in {add_topic_run(stored, session_id, form)} :
      /\ Fits(r.db, max_sessions)
      /\ commit(r.db)
      /\ response' = [op |-> "add_topic_to_session", status |-> r.status]
      /\ UNCHANGED now

\* POST /import
import_json(filename, data, max_sessions) ==
    \E r \in {import_json_run(stored, filename, data)} :
      /\ Fits(r.db, max_sessions)
      /\ commit(r.db)
      /\ response' = [op |-> "import_json", flash |-> r.flash]
      /\ UNCHANGED now

\* The started_at of every session, most recent first (the query of
\* streak_info; rows with equal started_at are equal in it).
started_at_desc ==
    LET ids == CHOOSE o \in sessions_desc : TRUE
    IN [i \in 1..Len(ids) |-> sessions[ids[i]].started_at]

\* datetime.now(tzinfo).date()
today == DateOf(now)

\* weekly_sessions(): the listings the query can return.
weekly_sessions == sessions_since(now - WeekDays * HoursPerDay)

\* sum(session.duration_min for session in rows)
total_duration(rows) ==
    SumSeq([i \in 1..Len(rows) |-> sessions[rows[i]].duration_min])

\* GET /  (and GET /api/dashboard): the values handed to the template; the
\* top-5 list is a sorted cut of topic_totals.
dashboard ==
    /\ \E last_week \in weekly_sessions :
         response' = [op |-> "dashboard",
                      now |-> now,
                      rows |-> last_week,
                      streak |-> streak_info(started_at_desc, today),
                      weekly_total |-> total_duration(last_week),
                      topic_totals |-> aggregate_time_by_topic(last_week),
                      total_sessions |-> Len(sessions)]
    /\ UNCHANGED <<now, instruments, sessions, topics, tags, session_topics,
                   topic_tags>>

\* days = 7 if range_param == "7d" else 30
analytics_days(range_param) == IF range_param = "7d" THEN WeekDays ELSE MonthDays

\* GET /analytics?range=<range_param>
analytics(range_param) ==
    /\ \E rows \in sessions_since(now - analytics_days(range_param) * HoursPerDay) :
         response' = [op |-> "analytics",
                      now |-> now,
                      days |-> analytics_days(range_param),
                      rows |-> rows,
                      total_minutes |-> total_duration(rows),
                      streak |-> streak_info(started_at_desc, today),
                      topic_totals |-> aggregate_time_by_topic(rows),
                      tag_totals |-> aggregate_time_by_tag(rows)]
    /\ UNCHANGED <<now, instruments, sessions, topics, tags, session_topics,
                   topic_tags>>

\* The clock advances by hours, at most MaxTicks times.
Tick(hours) ==
    /\ now + hours <= StartHour + MaxTicks * hours
    /\ now' = now + hours
    /\ UNCHANGED <<instruments, sessions, topics, tags, session_topics,
                   topic_tags, response>>

---------------------------------------------------------------------------
(* Inputs.                                                                 *)

NameA == <<"a">>
NameB == <<"b">>

\* A form of the new-session page with one topic and no tag.
PlainForm(started_at) ==
    [started_at |-> Some(started_at), duration_min |-> 30, instrument_id |-> 1,
     topics |-> <<NameA>>, tags |-> <<>>]

---------------------------------------------------------------------------
(* The streak: sessions are logged around today and the dashboard is read. *)

\* Hours before now at which a session is logged: tomorrow, now, earlier
\* today, yesterday 23:00, three days ago.
StreakOffsets == {-HoursPerDay, 0, 8, 10, 3 * HoursPerDay}

StreakCreate ==
    \E off \in StreakOffsets :
        /\ Len(sessions) < MaxStreakSessions
        /\ create_session(PlainForm(now - off), MaxStreakSessions)

StreakTick == Tick(HoursPerDay)

NextStreak == StreakCreate \/ dashboard \/ StreakTick

SpecStreak == Init /\ [][NextStreak]_vars

---------------------------------------------------------------------------
(* Properties of streak_info, read off the dashboard's response.  The      *)
(* tables are those the handler read: every handler that changes them      *)
(* replaces the response.                                                  *)

StreakRead == response.op \in {"dashboard", "analytics"}

\* The calendar days with at least one session.
PracticedDays == {DateOf(sessions[i].started_at) : i \in SessionIds}

MostRecentDay == CHOOSE d \in PracticedDays : \A e \in PracticedDays : e <= d

\* today, as the handler of the response read it.
ReadToday == DateOf(response.now)

\* The number of days of the longest run d, d-1, ... of practiced days.
RunLength(d) ==
    CHOOSE n \in 1..Cardinality(PracticedDays) :
        /\ \A k \in 0..(n - 1) : (d - k) \in PracticedDays
        /\ (d - n) \notin PracticedDays

\* C1 as stated: with at least one session, whatever today is, the streak
\* is at least 1 and streak_end is the most recent practiced day.
C1_AnchoredAtMostRecentDay ==
    (StreakRead /\ sessions # <<>>) =>
        /\ response.streak[1] >= 1
        /\ response.streak[3] = Some(MostRecentDay)

\* C1 amended: with at least one session, the streak is at least 1 and
\* streak_end is the most recent practiced day when that day is at most one
\* day before today; when it is two or more days before today the result
\* is (0, None, None).
C1_AnchoredWhenRecent ==
    (StreakRead /\ sessions # <<>>) =>
        IF ReadToday - MostRecentDay <= 1
        THEN /\ response.streak[1] >= 1
             /\ response.streak[3] = Some(MostRecentDay)
        ELSE response.streak = <<0, NoValue, NoValue>>

\* C1, the case: a single session, logged yesterday, gives a streak of 1.
C1_Witness ==
    /\ StreakRead
    /\ Len(sessions) = 1
    /\ ReadToday - MostRecentDay = 1
    /\ response.streak = <<1, Some(MostRecentDay), Some(MostRecentDay)>>

\* C2: when the most recent practiced day is today, the result is
\* (n, today-(n-1), today), n the length of the run of practiced days that
\* ends today.
C2_RunEndingToday ==
    (StreakRead /\ sessions # <<>> /\ MostRecentDay = ReadToday) =>
        response.streak = <<RunLength(ReadToday),
                            Some(ReadToday - (RunLength(ReadToday) - 1)),
                            Some(ReadToday)>>

\* C2, the case: sessions today, yesterday and three days ago give
\* (2, today-1, today).
C2_Witness ==
    /\ StreakRead
    /\ PracticedDays = {ReadToday, ReadToday - 1, ReadToday - 3}
    /\ response.streak = <<2, Some(ReadToday - 1), Some(ReadToday)>>

RECURSIVE DedupByDay(_)
\* rows with only the first row of each run of rows of one calendar day.
DedupByDay(rows) ==
    IF Len(rows) <= 1 THEN rows
    ELSE IF DateOf(rows[1]) = DateOf(rows[2])
         THEN DedupByDay(<<rows[1]>> \o SubSeq(rows, 3, Len(rows)))
         ELSE <<rows[1]>> \o DedupByDay(Tail(rows))

\* C3: the result is the result for the same sessions with one session kept
\* per calendar day.
C3_SameDayCountsOnce ==
    StreakRead =>
        response.streak = streak_info(DedupByDay(started_at_desc), ReadToday)

\* C3, the case: two sessions today and one yesterday give (2, today-1, today).
C3_Witness ==
    /\ StreakRead
    /\ Len(sessions) = 3
    /\ PracticedDays = {ReadToday, ReadToday - 1}
    /\ Cardinality({i \in SessionIds :
                      DateOf(sessions[i].started_at) = ReadToday}) = 2
    /\ response.streak = <<2, Some(ReadToday - 1), Some(ReadToday)>>

\* C4: with no session stored, the result is (0, None, None).
C4_NoSessions ==
    (StreakRead /\ sessions = <<>>) =>
        response.streak = <<0, NoValue, NoValue>>

\* C4, the case: the dashboard is read with no session, on a later day.
C4_Witness ==
    /\ StreakRead
    /\ sessions = <<>>
    /\ response.now > StartHour

---------------------------------------------------------------------------
(* The aggregators: sessions are logged and imported now, topics are added *)
(* to them, and the analytics page and the dashboard are read.             *)

AggTopicNames == {NameA, NameB}

\* Sequences over S of length lo..hi without repetition.
DistinctSeqsOf(S, lo, hi) == {q \in SeqsOf(S, lo, hi) : NoDuplicates(q)}

\* Each session is logged an hour before the one before it.
AggStart == now - Len(sessions)

AggCreate ==
    \E names \in DistinctSeqsOf(AggTopicNames, 1, MaxTopicsPerSession),
       tag_pieces \in {<<>>, <<NameA>>, <<NameA, NameB>>} :
        /\ Len(sessions) < MaxAggSessions
        /\ create_session([started_at |-> Some(AggStart), duration_min |-> 60,
                           instrument_id |-> 1, topics |-> names,
                           tags |-> tag_pieces], MaxAggSessions)

\* An export file that holds one session and no other list.
SessionFile(started_at, duration_min, topic_infos) ==
    [tags |-> <<>>, topics |-> <<>>, instruments |-> <<>>,
     sessions |-> <<[started_at |-> started_at, duration_min |-> duration_min,
                     instrument |-> "Piano", topics |-> topic_infos]>>]

\* An imported session has any duration and no topic, a topic without a
\* name, topic a, or topic a tagged b.
AggImport ==
    \E duration_min \in {-30, 45},
       topic_infos \in {<<>>, <<[name |-> <<>>, tags |-> <<>>]>>,
                        <<[name |-> NameA, tags |-> <<>>]>>,
                        <<[name |-> NameA, tags |-> <<NameB>>]>>} :
        /\ Len(sessions) < MaxAggSessions
        /\ import_json("data.json",
                       SessionFile(Some(AggStart), duration_min, topic_infos),
                       MaxAggSessions)

\* A topic the session does not have is added to it.
AggAddTopic ==
    \E session_id \in SessionIds, name \in AggTopicNames :
        /\ ~\E j \in 1..Len(session_topics) :
               /\ session_topics[j].session_id = session_id
               /\ topics[session_topics[j].topic_id] = name
        /\ add_topic_to_session(session_id, [name |-> name, tags |-> <<>>],
                                MaxAggSessions)

AggAnalytics == analytics("7d")

NextAgg == AggCreate \/ AggImport \/ AggAddTopic \/ AggAnalytics

SpecAgg == Init /\ [][NextAgg]_vars

---------------------------------------------------------------------------
(* Properties of the aggregators, read off the response of the analytics   *)
(* page: rows are the sessions it aggregated.                              *)

AggRead == response.op = "analytics"

\* The number of topics of a session.
TopicCount(sid) ==
    Cardinality({j \in 1..Len(session_topics) :
                   session_topics[j].session_id = sid})

\* duration_min / topic_count of a session with topics, in ShareUnit-ths.
\* (ShareUnit is a multiple of the topic count: the division is exact.)
ExactShare(sid) ==
    (sessions[sid].duration_min * ShareUnit) \div TopicCount(sid)

Linked(topic_id, tag_name) ==
    \E k \in 1..Len(topic_tags) :
        /\ topic_tags[k].topic_id = topic_id
        /\ tags[topic_tags[k].tag_id] = tag_name

\* What the sessions listed in rows owe to topic name: for each, its share
\* when the topic is one of its topics.
TopicShareOver(name, rows) ==
    SumSeq([i \in 1..Len(rows) |->
              IF \E j \in 1..Len(session_topics) :
                     /\ session_topics[j].session_id = rows[i]
                     /\ topics[session_topics[j].topic_id] = name
              THEN ExactShare(rows[i]) ELSE 0])

\* What the sessions listed in rows owe to tag name: for each, its share
\* once for every one of its topics that carries the tag.
TagShareOver(name, rows) ==
    SumSeq([i \in 1..Len(rows) |->
              LET tagged == {j \in 1..Len(session_topics) :
                               /\ session_topics[j].session_id = rows[i]
                               /\ Linked(session_topics[j].topic_id, name)}
              IN IF tagged = {} THEN 0
                 ELSE ExactShare(rows[i]) * Cardinality(tagged)])

\* totals.get(key, 0)
Get(totals, key) == IF key \in DOMAIN totals THEN totals[key] ELSE 0

\* C5: the topic totals add up to the durations of the aggregated sessions
\* that have at least one topic.
C5_Conservation ==
    AggRead =>
        SumOver(response.topic_totals, DOMAIN response.topic_totals)
          = ShareUnit *
            SumSeq([i \in 1..Len(response.rows) |->
                      IF TopicCount(response.rows[i]) > 0
                      THEN sessions[response.rows[i]].duration_min ELSE 0])

\* C5, the case: a session with two topics and a session without topics
\* but with a duration are aggregated.
C5_Witness ==
    /\ AggRead
    /\ \E i \in 1..Len(response.rows) : TopicCount(response.rows[i]) = 2
    /\ \E i \in 1..Len(response.rows) :
           /\ TopicCount(response.rows[i]) = 0
           /\ sessions[response.rows[i]].duration_min # 0
    /\ SumOver(response.topic_totals, DOMAIN response.topic_totals) # 0

\* C6: a tag has a total exactly when a topic of an aggregated session
\* carries it, and the total is, over the sessions, the session's share
\* once for each of its topics that carries the tag.
C6_TagGetsWholeShare ==
    AggRead =>
        /\ DOMAIN response.tag_totals =
             {tags[topic_tags[k].tag_id] : k \in
                {k \in 1..Len(topic_tags) :
                   \E i \in 1..Len(response.rows), j \in 1..Len(session_topics) :
                       /\ session_topics[j].session_id = response.rows[i]
                       /\ session_topics[j].topic_id = topic_tags[k].topic_id}}
        /\ \A g \in DOMAIN response.tag_totals :
               response.tag_totals[g] = TagShareOver(g, response.rows)

\* C6, the case: one session of 60 minutes with one topic tagged a and b
\* gives a: 60, b: 60.
C6_Witness ==
    /\ AggRead
    /\ Len(sessions) = 1
    /\ response.rows = <<1>>
    /\ sessions[1].duration_min = 60
    /\ TopicCount(1) = 1
    /\ response.tag_totals = [g \in {NameA, NameB} |-> 60 * ShareUnit]

\* rows without the sessions that have no topic.
WithTopics(rows) == SelectSeq(rows, LAMBDA sid : TopicCount(sid) > 0)

\* C7: both aggregates are what they are without the sessions that have no
\* topic.
C7_NoTopicsNoContribution ==
    AggRead =>
        /\ response.topic_totals =
               aggregate_time_by_topic(WithTopics(response.rows))
        /\ response.tag_totals =
               aggregate_time_by_tag(WithTopics(response.rows))

\* C7, the case: a session without topics but with a duration is aggregated
\* with a session that has a tagged topic.
C7_Witness ==
    /\ AggRead
    /\ \E i \in 1..Len(response.rows) :
           /\ TopicCount(response.rows[i]) = 0
           /\ sessions[response.rows[i]].duration_min # 0
    /\ DOMAIN response.topic_totals # {}
    /\ DOMAIN response.tag_totals # {}

NonNegativeRows(rows) ==
    SelectSeq(rows, LAMBDA sid : sessions[sid].duration_min >= 0)

NegativeRows(rows) ==
    SelectSeq(rows, LAMBDA sid : sessions[sid].duration_min < 0)

\* C8 as stated: a session with a negative duration adds 0 to every topic
\* total and to every tag total.
C8_NegativeAddsZero ==
    AggRead =>
        /\ \A k \in DOMAIN response.topic_totals :
               response.topic_totals[k] =
                   TopicShareOver(k, NonNegativeRows(response.rows))
        /\ \A g \in DOMAIN response.tag_totals :
               response.tag_totals[g] =
                   TagShareOver(g, NonNegativeRows(response.rows))

\* C8 amended: no aggregator raises, and a session with a negative duration
\* and n >= 1 topics adds duration_min / n, a negative amount, to the total
\* of each of its topics and to the total of each tag of each of them: the
\* totals differ from those without the negative sessions by these amounts.
C8_NegativeShareIsAdded ==
    AggRead =>
        /\ \A k \in DOMAIN response.topic_totals :
               response.topic_totals[k]
                 - Get(aggregate_time_by_topic(NonNegativeRows(response.rows)), k)
                   = TopicShareOver(k, NegativeRows(response.rows))
        /\ \A g \in DOMAIN response.tag_totals :
               response.tag_totals[g]
                 - Get(aggregate_time_by_tag(NonNegativeRows(response.rows)), g)
                   = TagShareOver(g, NegativeRows(response.rows))

\* C8, the case: a session with a negative duration and a tagged topic is
\* aggregated, and lowers a topic total and a tag total.
C8_Witness ==
    /\ AggRead
    /\ \E k \in DOMAIN response.topic_totals :
           TopicShareOver(k, NegativeRows(response.rows)) < 0
    /\ \E g \in DOMAIN response.tag_totals :
           TagShareOver(g, NegativeRows(response.rows)) < 0

---------------------------------------------------------------------------
(* The windowed selection: sessions are logged around the edges of the     *)
(* 7-day and the 30-day window, the clock advances by the hour, and the    *)
(* dashboard and the analytics page are read.                              *)

\* Hours before now at which a session is logged: now, 6 days 23 hours,
\* 7 days, 8 days and 30 days ago.
WindowOffsets ==
    {0, WeekDays * HoursPerDay - 1, WeekDays * HoursPerDay,
     (WeekDays + 1) * HoursPerDay, MonthDays * HoursPerDay}

WindowCreate ==
    \E off \in WindowOffsets :
        /\ Len(sessions) < MaxWindowSessions
        /\ create_session(PlainForm(now - off), MaxWindowSessions)

WindowAnalytics == \E range_param \in {"7d", "30d"} : analytics(range_param)

WindowTick == Tick(1)

NextWindow == WindowCreate \/ dashboard \/ WindowAnalytics \/ WindowTick

SpecWindow == Init /\ [][NextWindow]_vars

WindowRead == response.op \in {"dashboard", "analytics"}

\* The days of the window the response was selected with.
ReadDays == IF response.op = "dashboard" THEN WeekDays ELSE response.days

\* How long before the response's now a session started, in hours.
Age(sid) == response.now - sessions[sid].started_at

\* C9: the selection lists, each once, exactly the stored sessions started
\* at or after now - days, most recent first.
C9_WindowedSelection ==
    WindowRead =>
        /\ {response.rows[i] : i \in 1..Len(response.rows)}
             = {sid \in SessionIds : Age(sid) <= ReadDays * HoursPerDay}
        /\ \A i, j \in 1..Len(response.rows) :
               /\ (i # j => response.rows[i] # response.rows[j])
               /\ (i < j => sessions[response.rows[i]].started_at
                              >= sessions[response.rows[j]].started_at)

\* C9, the case: a 7-day selection with sessions 6 days 23 hours, exactly
\* 7 days and 8 days old keeps the first two, the younger one first.
C9_Witness ==
    /\ WindowRead
    /\ ReadDays = WeekDays
    /\ Len(sessions) = 3
    /\ {Age(sid) : sid \in SessionIds} = {167, 168, 192}
    /\ Len(response.rows) = 2
    /\ Age(response.rows[1]) = 167
    /\ Age(response.rows[2]) = 168

---------------------------------------------------------------------------
(* Sessions and their topics: sessions are submitted, topics are added to  *)
(* them, and export files are imported, with well-formed and malformed     *)
(* input.  No request carries a tag.                                       *)

\* The topic names a request can carry: empty, a, and a after a space.
RawNames == {<<>>, NameA, <<Space, "a">>}

\* A well-formed submission but for its topics.
TopicsForm(names) ==
    [started_at |-> Some(now), duration_min |-> 30, instrument_id |-> 1,
     topics |-> names, tags |-> <<>>]

\* Submissions with any topics, and submissions of topic a with an
\* unparsable date, a duration of 0, an unknown instrument.
CreateForms ==
    {TopicsForm(names) : names \in SeqsOf(RawNames, 0, MaxTopicsPerSession)}
    \cup {[TopicsForm(<<NameA>>) EXCEPT !.started_at = NoValue],
          [TopicsForm(<<NameA>>) EXCEPT !.duration_min = 0],
          [TopicsForm(<<NameA>>) EXCEPT !.instrument_id = 9]}

CreateSession ==
    /\ Len(sessions) < MaxSessions
    /\ \E form \in CreateForms : create_session(form, MaxSessions)

AddTopicToSession ==
    \E session_id \in 1..(Len(sessions) + 1), name \in RawNames :
        add_topic_to_session(session_id, [name |-> name, tags |-> <<>>],
                             MaxSessions)

\* Export files that hold at most one topic and nothing else.
ListFiles ==
    [tags : {<<>>},
     topics : SeqsOf([id : {1}, name : RawNames, tags : {<<>>}], 0, 1),
     instruments : {<<>>},
     sessions : {<<>>}]

\* The topic entries of an imported session.
TopicInfos == [name : RawNames, tags : {<<>>}]

\* Export files that hold one session, and one whose date does not parse.
SessionFiles ==
    {SessionFile(Some(now), -30, topic_infos) :
        topic_infos \in SeqsOf(TopicInfos, 0, MaxTopicsPerSession)}
    \cup {SessionFile(NoValue, -30, <<[name |-> NameA, tags |-> <<>>]>>)}

ImportJson ==
    \/ /\ Len(sessions) < MaxSessions
       /\ \E data \in ListFiles \cup SessionFiles :
              import_json("data.json", data, MaxSessions)
    \/ \E filename \in {"", "data.csv"} :
           import_json(filename, SessionFile(Some(now), -30, <<>>), MaxSessions)

Next == CreateSession \/ AddTopicToSession \/ ImportJson

Spec == Init /\ [][Next]_vars

\* C10: no two SessionTopic rows share the session and the topic.
C10_TopicOncePerSession ==
    \A i, j \in 1..Len(session_topics) :
        (/\ session_topics[i].session_id = session_topics[j].session_id
         /\ session_topics[i].topic_id = session_topics[j].topic_id) => i = j

\* C10, the case: sessions with topics are stored and an import that lists
\* a topic twice in one session has been refused.
C10_Witness ==
    /\ response = [op |-> "import_json", flash |-> "IntegrityError"]
    /\ Len(session_topics) >= 2

---------------------------------------------------------------------------
(* The stored names.                                                       *)

\* A name as the forms store it: not empty, no space at either end.
Trimmed(name) == name # <<>> /\ strip(name) = name

\* C11: every stored Topic name and every stored Tag name is non-empty and
\* has no leading or trailing whitespace.
C11_NamesTrimmed ==
    /\ \A i \in 1..Len(topics) : Trimmed(topics[i])
    /\ \A i \in 1..Len(tags) : Trimmed(tags[i])

---------------------------------------------------------------------------
(* Topics, tags and their links: sessions are submitted with tags, well    *)
(* formed or not, topics are added with tags, and export files with tag    *)
(* and topic lists are imported.                                           *)

MaxTagSessions == 2

TagNames == {NameA, NameB}

\* A well-formed submission of the given topics and tags.
TagsForm(names, tag_pieces) ==
    [started_at |-> Some(now), duration_min |-> 30, instrument_id |-> 1,
     topics |-> names, tags |-> tag_pieces]

\* Submissions of one or two topics, the same twice included, with no tag,
\* one tag or two; and the submissions that are refused: an empty topic
\* name, no topic, a duration of 0, an unparsable date, an unknown instrument.
TagForms ==
    {TagsForm(names, tag_pieces) :
        names \in SeqsOf(TagNames, 1, MaxTopicsPerSession),
        tag_pieces \in {<<>>, <<NameA>>, <<NameA, NameB>>}}
    \cup {TagsForm(<<NameA, <<Space>>>>, <<NameA>>),
          TagsForm(<<>>, <<NameA>>),
          [TagsForm(<<NameA>>, <<NameA>>) EXCEPT !.duration_min = 0],
          [TagsForm(<<NameA>>, <<NameA>>) EXCEPT !.started_at = NoValue],
          [TagsForm(<<NameA>>, <<NameA>>) EXCEPT !.instrument_id = 9]}

TagCreate ==
    /\ Len(sessions) < MaxTagSessions
    /\ \E form \in TagForms : create_session(form, MaxTagSessions)

TagAddTopic ==
    \E session_id \in SessionIds, name \in TagNames,
       tag_pieces \in {<<>>, <<NameB>>} :
        add_topic_to_session(session_id,
                             [name |-> name, tags |-> tag_pieces],
                             MaxTagSessions)

\* Export files: tag b or no tag, and topic a with the tag ids 1, 1 or the
\* unknown id 2; or one session of topic a tagged b.
TagFiles ==
    {[tags |-> tag_datas, topics |-> topic_datas, instruments |-> <<>>,
      sessions |-> <<>>] :
        tag_datas \in {<<>>, <<[id |-> 1, name |-> NameB]>>},
        topic_datas \in {<<[id |-> 1, name |-> NameA, tags |-> tag_ids]>> :
                            tag_ids \in {<<1, 1>>, <<2>>}}}
    \cup {SessionFile(Some(now), 30, <<[name |-> NameA, tags |-> <<NameB>>]>>)}

TagImport ==
    \E data \in TagFiles :
        /\ Len(sessions) + Len(data.sessions) <= MaxTagSessions
        /\ import_json("data.json", data, MaxTagSessions)

NextTags == TagCreate \/ TagAddTopic \/ TagImport

SpecTags == Init /\ [][NextTags]_vars

\* C12: get-or-create by a stored name returns the stored entity and
\* creates nothing, for topics and for tags, and linking a linked pair
\* stores nothing; no two Topics share a name, no two Tags share a name and
\* no (topic, tag) link is stored twice.
C12_IdempotentUpsert ==
    /\ \A i \in 1..Len(topics) :
           get_or_create_topic(stored, topics[i]) = [db |-> stored, id |-> i]
    /\ \A i \in 1..Len(tags) :
           get_or_create_tag(stored, tags[i]) = [db |-> stored, id |-> i]
    /\ \A k \in 1..Len(topic_tags) :
           link_topic_tag(stored, topic_tags[k].topic_id,
                          topic_tags[k].tag_id) = stored
    /\ NoDuplicates(topics)
    /\ NoDuplicates(tags)
    /\ NoDuplicates(topic_tags)

\* C12, the case: two sessions were submitted with the same topic and the
\* same tag, which are stored once and linked once.
C12_Witness ==
    /\ response = [op |-> "create_session", flash |-> "success"]
    /\ Len(sessions) = 2
    /\ \E t \in 1..Len(topics) :
         /\ topic_in_session(stored, 1, t)
         /\ topic_in_session(stored, 2, t)
    /\ Len(topics) = 1
    /\ Len(tags) = 1
    /\ Len(topic_tags) = 1


\* The rows of every table, in the order they were stored.
Rows ==
    <<instruments, sessions, topics, tags, session_topics, topic_tags>>

\* C13: a create_session that is refused leaves every table as it was; one
\* that succeeds stores one session, with duration_min > 0 and at least one
\* topic.
C13_AllOrNothing ==
    [][response'.op = "create_session" =>
         IF response'.flash = "success"
         THEN /\ Len(sessions') = Len(sessions) + 1
              /\ sessions'[Len(sessions')].duration_min > 0
              /\ \E j \in 1..Len(session_topics') :
                     session_topics'[j].session_id = Len(sessions')
         ELSE Rows' = Rows]_vars

\* C13, the case: a submission that names a new topic twice has been
\* refused on an empty database, and the topic it created is not stored.
C13_Witness ==
    /\ response = [op |-> "create_session", flash |-> "error_duplicate"]
    /\ sessions = <<>>
    /\ topics = <<>>


---------------------------------------------------------------------------
(* The links of topics and tags: well-formed sessions are submitted with   *)
(* tags, a topic is added with a tag, and a tagged topic is imported.      *)

MaxLinkSessions == 2

\* Submissions of one or two different topics with no tag, one tag or two.
LinkForms ==
    {TagsForm(names, tag_pieces) :
        names \in DistinctSeqsOf(TagNames, 1, MaxTopicsPerSession),
        tag_pieces \in {<<>>, <<NameA>>, <<NameA, NameB>>}}

LinkCreate ==
    /\ Len(sessions) < MaxLinkSessions
    /\ \E form \in LinkForms : create_session(form, MaxLinkSessions)

\* Topic b is added, tagged b, to a session that does not have it.
LinkAddTopic ==
    \E session_id \in SessionIds :
        /\ ~\E t \in 1..Len(topics) :
               topics[t] = NameB /\ topic_in_session(stored, session_id, t)
        /\ add_topic_to_session(session_id,
                                [name |-> NameB, tags |-> <<NameB>>],
                                MaxLinkSessions)

\* An export file with tag b and topic a, tagged b, is imported once.
LinkImport ==
    /\ topics = <<>>
    /\ import_json("data.json",
                   [tags |-> <<[id |-> 1, name |-> NameB]>>,
                    topics |-> <<[id |-> 1, name |-> NameA, tags |-> <<1>>]>>,
                    instruments |-> <<>>, sessions |-> <<>>],
                   MaxLinkSessions)

NextLinks == LinkCreate \/ LinkAddTopic \/ LinkImport

SpecLinks == Init /\ [][NextLinks]_vars

\* The submitted topics and tags as create_session stores them.
FormTopics(form) == [i \in 1..Len(form.topics) |-> strip(form.topics[i])]
FormTags(form) == clean_tags(form.tags)

\* A TopicTag row of the tables d links the topic and the tag of these names.
LinkedIn(d, topic_name, tag_name) ==
    \E k \in 1..Len(d.topic_tags) :
        /\ d.topics[d.topic_tags[k].topic_id] = topic_name
        /\ d.tags[d.topic_tags[k].tag_id] = tag_name

\* The sessions of the tables d that reference the topic of this name.
SessionsOf(d, topic_name) ==
    {d.session_topics[j].session_id : j \in
        {j \in 1..Len(d.session_topics) :
            d.topics[d.session_topics[j].topic_id] = topic_name}}

\* C14: after a successful create_session every submitted topic is linked
\* to every submitted tag; the links, topics and tags stored before are
\* kept as they were and no link is stored twice; and the tag totals of
\* every session that references a submitted topic, an earlier session
\* included, hold every submitted tag.
C14_TagsLinkedToTopics ==
    [][\A form \in LinkForms :
         (/\ response' = [op |-> "create_session", flash |-> "success"]
          /\ Len(sessions') = Len(sessions) + 1
          /\ Len(session_topics') = Len(session_topics) + Len(form.topics)
          /\ create_session(form, MaxLinkSessions))
         => /\ \A p \in 1..Len(FormTopics(form)), t \in 1..Len(FormTags(form)) :
                   LinkedIn(stored', FormTopics(form)[p], FormTags(form)[t])
            /\ SubSeq(topic_tags', 1, Len(topic_tags)) = topic_tags
            /\ SubSeq(topics', 1, Len(topics)) = topics
            /\ SubSeq(tags', 1, Len(tags)) = tags
            /\ NoDuplicates(topic_tags')
            /\ \A sid \in 1..Len(sessions') :
                 LET tag_totals == aggregate_time_by_tag(<<sid>>)' IN
                   \A p \in 1..Len(FormTopics(form)) :
                     sid \in SessionsOf(stored', FormTopics(form)[p]) =>
                       \A t \in 1..Len(FormTags(form)) :
                         FormTags(form)[t] \in DOMAIN tag_totals
       ]_vars

\* C14, the case: a second session was submitted for a topic of the first
\* one, and two tags are linked to it.
C14_Witness ==
    /\ response = [op |-> "create_session", flash |-> "success"]
    /\ Len(sessions) = 2
    /\ \E t \in 1..Len(topics) :
         /\ topic_in_session(stored, 1, t)
         /\ topic_in_session(stored, 2, t)
         /\ Len(topic_tags_of(t)) = 2
    /\ Len(topics) = 2

---------------------------------------------------------------------------
(* The three values of streak_info together, on the dashboard's response.  *)

\* C15: the result is (0, None, None), or streak >= 1, both dates are set,
\* streak_start <= streak_end, streak is the number of days from
\* streak_start to streak_end, and every one of those days has a session.
C15_StreakConsistent ==
    StreakRead =>
        \/ response.streak = <<0, NoValue, NoValue>>
        \/ /\ response.streak[1] >= 1
           /\ response.streak[2] # NoValue
           /\ response.streak[3] # NoValue
           /\ response.streak[2][1] <= response.streak[3][1]
           /\ response.streak[1] =
                  response.streak[3][1] - response.streak[2][1] + 1
           /\ \A d \in response.streak[2][1]..response.streak[3][1] :
                  d \in PracticedDays

\* C15, the case: a streak of two days or more, and an older session
\* outside it.
C15_Witness ==
    /\ StreakRead
    /\ response.streak[1] >= 2
    /\ response.streak[2][1] < response.streak[3][1]
    /\ \E d \in PracticedDays : d < response.streak[2][1]

\* C16: a positive streak ends today or the day before today.
C16_StreakEndsTodayOrYesterday ==
    (StreakRead /\ response.streak[1] > 0) =>
        response.streak[3] \in {Some(ReadToday), Some(ReadToday - 1)}

===========================================================================
